---- MODULE Spec2Model ----
(***************************************************************************)
(* URLArticlePipelineSQL (internal_displacement/sql_pipeline.py): a        *)
(* coordinator that owns one sqlite connection and the two tables Articles *)
(* and Labels.  The tables are sequences of rows in rowid order.           *)
(* process_urls is modelled step by step (the control thread's call,       *)
(* submit loop, as_completed loop and return, and the pool workers taking  *)
(* and finishing scrape tasks); the single-threaded operations are one     *)
(* action each.  What the scraper returns and whether the store fails are  *)
(* inputs of the actions.                                                  *)
(***************************************************************************)
EXTENDS Integers, Sequences, FiniteSets, TLC

VARIABLES articles, labels, pc, urls, futures, log, raised, last

vars == <<articles, labels, pc, urls, futures, log, raised, last>>

(* ------------------------------ bounds --------------------------------- *)
MaxCsvLen == 2
MaxArticles == 2
MaxLabels == 2
PoolTasks == 11
JointCsvLen == 1

URLS == {"a", "b"}
CATS == {"x", "y"}

(* ------------------------- program constants --------------------------- *)
max_workers == 10

(* ------------------------------ helpers -------------------------------- *)
Range(s) == {s[i] : i \in DOMAIN s}

Min(m, n) == IF m <= n THEN m ELSE n

(* ----------------------------- CSV input ------------------------------- *)
CsvRow == [URL : URLS, Tag : CATS]

CSVS == UNION {[1..n -> CsvRow] : n \in 0..MaxCsvLen}

PoolCsv == [i \in 1..PoolTasks |-> [URL |-> "a", Tag |-> "x"]]

\* df[column].values / urls_from_csv(dataset, column): the named column, in
\* row order
Column(dataset, name) == [i \in DOMAIN dataset |-> dataset[i][name]]

urls_from_csv(dataset, url_column) == Column(dataset, url_column)

(* ------------------------------ articles ------------------------------- *)
\* the Article the scraper builds for a url
ScrapedArticle(u) ==
    [title |-> "t_" \o u, url |-> u, authors |-> <<"p", "q">>,
     pub_date |-> "d_" \o u, domain |-> "dom_" \o u,
     content |-> "text_" \o u, content_type |-> "text"]

ScrapeResults == {"article", "none", "error"}

RECURSIVE JoinComma(_)
JoinComma(s) ==
    IF s = <<>> THEN ""
    ELSE IF Len(s) = 1 THEN s[1]
    ELSE s[1] \o "," \o JoinComma(Tail(s))

\* the tuple insert_article binds to INSERT INTO Articles VALUES (?,?,?,?,?,?,?)
ArticleRow(article) ==
    [title |-> article.title, url |-> article.url,
     author |-> JoinComma(article.authors), datetime |-> article.pub_date,
     domain |-> article.domain, content |-> article.content,
     content_type |-> article.content_type]

(* ------------------------------- store --------------------------------- *)
\* SELECT url FROM <table>
SelectUrls(table) == [i \in DOMAIN table |-> table[i].url]

\* CREATE TABLE ... Articles (title TEXT, url TEXT, ...): no PRIMARY KEY and
\* no UNIQUE column is declared, so no INSERT violates a constraint
UniqueViolation(table, row) == FALSE

\* cursor.execute("INSERT INTO Articles ...") with the store failing or not
ExecuteInsert(table, row, fault) ==
    IF UniqueViolation(table, row) THEN "IntegrityError"
    ELSE IF fault THEN "Exception"
    ELSE "ok"

\* insert_article: the new table, what is printed, and the exception that
\* leaves the method.  The IntegrityError handler evaluates self.url, which
\* the coordinator does not have: AttributeError leaves the method.
insert_article(table, article, fault) ==
    LET row == ArticleRow(article)
        res == ExecuteInsert(table, row, fault)
    IN  IF res = "ok"
        THEN [table |-> Append(table, row), out |-> <<>>, exc |-> "none"]
        ELSE IF res = "IntegrityError"
        THEN [table |-> table, out |-> <<>>, exc |-> "AttributeError"]
        ELSE [table |-> table, out |-> <<"Exception">>, exc |-> "none"]

(* ------------------------------ __init__ ------------------------------- *)
\* a schema creation that replaces the table
CreateTableDropping(table) == <<>>

\* CREATE TABLE IF NOT EXISTS on a store file that has the table: the table
\* and its rows are left as they are
CreateTableIfNotExists(table) == table

\* a coordinator is constructed on the existing store file.  When a
\* process_urls call is in progress (pc # "idle") this is the run being
\* interrupted and the pipeline started again: every INSERT executed so far
\* was committed when it ran, the tasks and the rest of the call are lost.
Construct ==
    /\ articles' = CreateTableIfNotExists(articles)
    /\ labels' = CreateTableIfNotExists(labels)
    /\ last' = [op |-> "construct", interrupted |-> (pc # "idle"),
                csv |-> IF pc # "idle" THEN last.csv ELSE <<>>,
                before |-> articles, before_labels |-> labels]
    /\ pc' = "idle"
    /\ urls' = <<>>
    /\ futures' = <<>>
    /\ log' = <<>>
    /\ raised' = FALSE

(* --------------------------- InsertArticle ----------------------------- *)
InsertArticle(article, fault) ==
    /\ pc = "idle"
    /\ LET r == insert_article(articles, article, fault)
       IN  /\ articles' = r.table
           /\ log' = r.out
           /\ raised' = (r.exc # "none")
    /\ last' = [op |-> "insert_article", url |-> article.url, before |-> articles]
    /\ urls' = <<>>
    /\ futures' = <<>>
    /\ UNCHANGED <<labels, pc>>

(* ---------------------------- process_urls ---------------------------- *)
\* the filter keeping every url (no dedup against the store)
NotExistingUnfiltered(url_list, existing_urls) == url_list

\* the filter with its condition inverted (u in existing_urls)
NotExistingInverted(url_list, existing_urls) ==
    SelectSeq(url_list, LAMBDA u : u \in Range(existing_urls))

\* [u for u in urls if u not in existing_urls]
NotExisting(url_list, existing_urls) ==
    SelectSeq(url_list, LAMBDA u : u \notin Range(existing_urls))

\* the call up to the creation of the executor: read the CSV, query the
\* stored urls, keep the urls not stored
process_urls(dataset) ==
    /\ pc = "idle"
    /\ LET column == urls_from_csv(dataset, "URL")
           existing_urls == SelectUrls(articles)
           todo == NotExisting(column, existing_urls)
       IN  /\ urls' = todo
           /\ pc' = IF todo = <<>> THEN "drain" ELSE "submit"
           /\ last' = [op |-> "process_urls", csv |-> column, before |-> articles,
                       rerun |-> (last.op = "process_urls" /\ last.csv = column),
                       retry |-> (last.op = "construct" /\ last.interrupted
                                     /\ last.csv = column)]
    /\ futures' = <<>>
    /\ log' = <<>>
    /\ raised' = FALSE
    /\ UNCHANGED <<articles, labels>>

\* one iteration of: for url in urls: article_futures.append(executor.submit(scrape, url))
Submit ==
    /\ pc = "submit"
    /\ Len(futures) < Len(urls)
    /\ futures' = Append(futures, [url |-> urls[Len(futures) + 1],
                                   state |-> "queued", result |-> "pending"])
    /\ pc' = IF Len(futures) + 1 = Len(urls) THEN "drain" ELSE "submit"
    /\ UNCHANGED <<articles, labels, urls, log, raised, last>>

Running == {i \in DOMAIN futures : futures[i].state = "running"}

Queued == {i \in DOMAIN futures : futures[i].state = "queued"}

\* a pool that starts a thread for every work item
HasFreeWorkerUnbounded == TRUE

\* ThreadPoolExecutor(max_workers=10): a work item leaves the queue only
\* when one of the at most max_workers threads is free
HasFreeWorker == Cardinality(Running) < max_workers

\* a pool thread takes the oldest queued work item and starts scrape(url)
TaskStart(i) ==
    /\ pc \in {"submit", "drain"}
    /\ i \in Queued
    /\ \A j \in Queued : i <= j
    /\ HasFreeWorker
    /\ futures' = [futures EXCEPT ![i].state = "running"]
    /\ UNCHANGED <<articles, labels, pc, urls, log, raised, last>>

\* a worker that stores the article it scraped itself
TaskFinishInserting(i, r) ==
    /\ pc \in {"submit", "drain"}
    /\ i \in Running
    /\ futures' = [futures EXCEPT ![i].state = "finished", ![i].result = r]
    /\ articles' = IF r = "article"
                   THEN Append(articles, ArticleRow(ScrapedArticle(futures[i].url)))
                   ELSE articles
    /\ UNCHANGED <<labels, pc, urls, log, raised, last>>

\* scrape(url) returns an Article, returns None, or raises
TaskFinish(i, r) ==
    /\ pc \in {"submit", "drain"}
    /\ i \in Running
    /\ futures' = [futures EXCEPT ![i].state = "finished", ![i].result = r]
    /\ UNCHANGED <<articles, labels, pc, urls, log, raised, last>>

\* the loop body without the test for None: the result is stored whatever
\* the scrape yielded
LoopBodyWithoutNoneCheck(table, f, fault) ==
    IF f.result = "error"
    THEN [table |-> table, out |-> <<>>, exc |-> "ScrapeFailure"]
    ELSE LET article == ScrapedArticle(f.url)
             r == insert_article(table, article, fault)
         IN  [table |-> r.table, out |-> <<article.title>> \o r.out, exc |-> r.exc]

\* the try block of the as_completed loop for one completed future
LoopBody(table, f, fault) ==
    IF f.result = "error"
    THEN [table |-> table, out |-> <<>>, exc |-> "ScrapeFailure"]
    ELSE IF f.result = "none"
    THEN [table |-> table, out |-> <<>>, exc |-> "none"]
    ELSE LET article == ScrapedArticle(f.url)
             r == insert_article(table, article, fault)
         IN  [table |-> r.table, out |-> <<article.title>> \o r.out, exc |-> r.exc]

\* a handler that catches store errors only
CatchesStoreErrorsOnly(exc) == exc # "ScrapeFailure"

\* except Exception as e: every exception of the loop body is caught
CatchesInLoop(exc) == TRUE

\* the loop leaving at the first future without an article (break instead of
\* continue): what is stored depends on which future completes first
DrainStopsAtNone(i, fault) ==
    /\ pc = "drain"
    /\ i \in DOMAIN futures
    /\ futures[i].state = "finished"
    /\ LET r == LoopBody(articles, futures[i], fault)
       IN  /\ articles' = r.table
           /\ log' = log \o r.out \o (IF r.exc = "none" THEN <<>> ELSE <<"Exception">>)
    /\ pc' = IF futures[i].result = "none" THEN "idle" ELSE pc
    /\ futures' = [futures EXCEPT ![i].state = "drained"]
    /\ UNCHANGED <<labels, urls, raised, last>>

\* one iteration of: for f in concurrent.futures.as_completed(article_futures)
Drain(i, fault) ==
    /\ pc = "drain"
    /\ i \in DOMAIN futures
    /\ futures[i].state = "finished"
    /\ LET r == LoopBody(articles, futures[i], fault)
       IN  /\ articles' = r.table
           /\ IF r.exc = "none"
              THEN /\ log' = log \o r.out
                   /\ UNCHANGED <<pc, raised>>
              ELSE IF CatchesInLoop(r.exc)
              THEN /\ log' = log \o r.out \o <<"Exception">>
                   /\ UNCHANGED <<pc, raised>>
              ELSE /\ log' = log \o r.out
                   /\ pc' = "idle"
                   /\ raised' = TRUE
    /\ futures' = [futures EXCEPT ![i].state = "drained"]
    /\ UNCHANGED <<labels, urls, last>>

\* a return that does not wait for the futures still to be yielded
ReturnWithoutWaiting ==
    /\ pc = "drain"
    /\ pc' = "idle"
    /\ UNCHANGED <<articles, labels, urls, futures, log, raised, last>>

\* every future has been yielded: the with block shuts the executor down and
\* process_urls returns
Return ==
    /\ pc = "drain"
    /\ Len(futures) = Len(urls)
    /\ \A i \in DOMAIN futures : futures[i].state = "drained"
    /\ pc' = "idle"
    /\ UNCHANGED <<articles, labels, urls, futures, log, raised, last>>

(* ------------------------ process_labeled_data ------------------------- *)
\* list(zip(urls, labels)): pairs by position, as long as the shorter list
Zip(xs, ys) == [i \in 1..Min(Len(xs), Len(ys)) |-> <<xs[i], ys[i]>>]

\* the list handed to executemany: the url column without the urls stored in
\* Labels, zipped with the whole Tag column
LabelValues(df, table) ==
    LET url_col == Column(df, "URL")
        existing_urls == SelectUrls(table)
        new_urls == NotExisting(url_col, existing_urls)
        tags == Column(df, "Tag")
    IN  Zip(new_urls, tags)

LabelRow(v) == [url |-> v[1], category |-> v[2]]

\* executemany("INSERT INTO Labels VALUES (?, ?)", values) on a connection
\* opened with isolation_level=None: no transaction is opened, each INSERT is
\* committed when it is executed.  failAt = 0: no statement fails; failAt = k:
\* the k-th statement fails, after the k-1 before it were executed.
ExecuteMany(table, values, failAt) ==
    LET n == IF failAt = 0 THEN Len(values) ELSE failAt - 1
    IN  table \o [i \in 1..n |-> LabelRow(values[i])]

process_labeled_data(df, failAt) ==
    /\ pc = "idle"
    /\ LET values == LabelValues(df, labels)
       IN  /\ failAt \in 0..Len(values)
           /\ labels' = ExecuteMany(labels, values, failAt)
    /\ raised' = (failAt # 0)
    /\ last' = [op |-> "process_labeled_data", csv |-> df, before |-> labels]
    /\ log' = <<>>
    /\ urls' = <<>>
    /\ futures' = <<>>
    /\ UNCHANGED <<articles, pc>>

(* -------------------------- get_training_data -------------------------- *)
\* the rows of Articles that join one row of Labels, in Articles order
RECURSIVE JoinOne(_, _)
JoinOne(table, l) ==
    IF table = <<>> THEN <<>>
    ELSE (IF Head(table).url = l.url
          THEN <<[url |-> l.url, content |-> Head(table).content, category |-> l.category]>>
          ELSE <<>>) \o JoinOne(Tail(table), l)

\* SELECT content,category FROM Articles INNER JOIN Labels ON Articles.url = Labels.url
RECURSIVE InnerJoin(_, _)
InnerJoin(arts, labs) ==
    IF labs = <<>> THEN <<>>
    ELSE JoinOne(arts, Head(labs)) \o InnerJoin(arts, Tail(labs))

\* iterating a cursor from position pos fetches the rows left and leaves the
\* cursor at its end
FetchRest(rows, pos) == SubSeq(rows, pos, Len(rows))

\* a retrieval that removes the labels it returned
get_training_data_consuming ==
    /\ pc = "idle"
    /\ last' = [op |-> "get_training_data",
                labels |-> [i \in DOMAIN labels |-> labels[i].category],
                features |-> <<>>]
    /\ labels' = <<>>
    /\ log' = <<>>
    /\ raised' = FALSE
    /\ urls' = <<>>
    /\ futures' = <<>>
    /\ UNCHANGED <<articles, pc>>

\* labels is built by a list comprehension that runs the cursor to its end;
\* features is built afterwards from a generator over the same cursor.  The
\* method returns (labels, features).
get_training_data ==
    /\ pc = "idle"
    /\ LET training_cases == InnerJoin(articles, labels)
           first == FetchRest(training_cases, 1)
           second == FetchRest(training_cases, Len(first) + 1)
       IN  last' = [op |-> "get_training_data",
                    labels |-> [i \in DOMAIN first |-> first[i].category],
                    features |-> [i \in DOMAIN second |-> second[i].content]]
    /\ log' = <<>>
    /\ raised' = FALSE
    /\ urls' = <<>>
    /\ futures' = <<>>
    /\ UNCHANGED <<articles, labels, pc>>

Init ==
    /\ articles = <<>>
    /\ labels = <<>>
    /\ pc = "idle"
    /\ urls = <<>>
    /\ futures = <<>>
    /\ log = <<>>
    /\ raised = FALSE
    /\ last = [op |-> "none"]

Next ==
    \/ \E u \in URLS, fault \in BOOLEAN :
          /\ Len(articles) < MaxArticles
          /\ InsertArticle(ScrapedArticle(u), fault)
    \/ \E dataset \in CSVS :
          /\ Len(articles) + Len(NotExisting(urls_from_csv(dataset, "URL"), SelectUrls(articles))) <= MaxArticles
          /\ process_urls(dataset)
    \/ Submit
    \/ \E i \in DOMAIN futures : TaskStart(i)
    \/ \E i \in DOMAIN futures, r \in ScrapeResults : TaskFinish(i, r)
    \/ \E i \in DOMAIN futures, fault \in BOOLEAN : Drain(i, fault)
    \/ Return
    \/ \E df \in CSVS, failAt \in 0..MaxCsvLen :
          /\ Len(labels) + Len(LabelValues(df, labels)) <= MaxLabels
          /\ process_labeled_data(df, failAt)
    \/ get_training_data
    \/ Construct

Spec == Init /\ [][Next]_vars

\* one CSV of PoolTasks rows, every scrape returning an article and the store
\* not failing: the worker pool with more tasks than threads
NextPool ==
    \/ process_urls(PoolCsv)
    \/ Submit
    \/ \E i \in DOMAIN futures : TaskStart(i)
    \/ \E i \in DOMAIN futures : TaskFinish(i, "article")
    \/ \E i \in DOMAIN futures : Drain(i, FALSE)
    \/ Return

SpecPool == Init /\ [][NextPool]_vars

\* the CSV files process_urls tells apart: it reads the URL column only
UrlCsvs == {d \in CSVS : \A i \in DOMAIN d : d[i].Tag = "x"}

\* the article pipeline alone (construction, insert_article, process_urls):
\* no operation on Labels is called
NextUrls ==
    \/ \E u \in URLS, fault \in BOOLEAN :
          /\ Len(articles) < MaxArticles
          /\ InsertArticle(ScrapedArticle(u), fault)
    \/ \E dataset \in UrlCsvs :
          /\ Len(articles) + Len(NotExisting(urls_from_csv(dataset, "URL"), SelectUrls(articles))) <= MaxArticles
          /\ process_urls(dataset)
    \/ Submit
    \/ \E i \in DOMAIN futures : TaskStart(i)
    \/ \E i \in DOMAIN futures, r \in ScrapeResults : TaskFinish(i, r)
    \/ \E i \in DOMAIN futures, fault \in BOOLEAN : Drain(i, fault)
    \/ Return
    \/ Construct

SpecUrls == Init /\ [][NextUrls]_vars

\* every operation of the coordinator, on CSV files of at most JointCsvLen
\* rows
JointCsvs == {d \in CSVS : Len(d) <= JointCsvLen}

NextJoint ==
    \/ \E u \in URLS, fault \in BOOLEAN :
          /\ Len(articles) < MaxArticles
          /\ InsertArticle(ScrapedArticle(u), fault)
    \/ \E dataset \in JointCsvs \cap UrlCsvs :
          /\ Len(articles) + Len(NotExisting(urls_from_csv(dataset, "URL"), SelectUrls(articles))) <= MaxArticles
          /\ process_urls(dataset)
    \/ Submit
    \/ \E i \in DOMAIN futures : TaskStart(i)
    \/ \E i \in DOMAIN futures, r \in ScrapeResults : TaskFinish(i, r)
    \/ \E i \in DOMAIN futures, fault \in BOOLEAN : Drain(i, fault)
    \/ Return
    \/ \E df \in JointCsvs, failAt \in 0..JointCsvLen :
          /\ Len(labels) + Len(LabelValues(df, labels)) <= MaxLabels
          /\ process_labeled_data(df, failAt)
    \/ get_training_data
    \/ Construct

SpecJoint == Init /\ [][NextJoint]_vars

\* process_urls calls alone, not interrupted, with the scheduling the
\* executor and the control thread give: the control thread keeps running
\* its loops, a queued task is started when a thread is free, and every
\* started scrape returns or raises
NextRun ==
    \/ \E dataset \in CSVS :
          /\ Len(articles) + Len(NotExisting(urls_from_csv(dataset, "URL"), SelectUrls(articles))) <= MaxArticles
          /\ process_urls(dataset)
    \/ Submit
    \/ \E i \in DOMAIN futures : TaskStart(i)
    \/ \E i \in DOMAIN futures, r \in ScrapeResults : TaskFinish(i, r)
    \/ \E i \in DOMAIN futures, fault \in BOOLEAN : Drain(i, fault)
    \/ Return

Fairness ==
    /\ WF_vars(Submit)
    /\ WF_vars(\E i \in DOMAIN futures : TaskStart(i))
    /\ WF_vars(\E i \in DOMAIN futures, r \in ScrapeResults : TaskFinish(i, r))
    /\ WF_vars(\E i \in DOMAIN futures, fault \in BOOLEAN : Drain(i, fault))
    /\ WF_vars(Return)

SpecLive == Init /\ [][NextRun]_vars /\ Fairness

(* ------------------------------ properties ----------------------------- *)
StoredUrls(table) == {table[i].url : i \in DOMAIN table}

RowsWithUrl(table, u) == {i \in DOMAIN table : table[i].url = u}

Finished(op) == pc = "idle" /\ last.op = op

\* C1: after any sequence of InsertArticle calls, Articles holds at most one
\* row for every url
C1_ArticleUrlUnique ==
    last.op = "insert_article" =>
        \A u \in URLS : Cardinality(RowsWithUrl(articles, u)) <= 1

\* C2 as stated: a second ProcessURLs call with the same CSV, right after the
\* first, ends with the Articles table the first call left
C2_SecondRunInsertsNothing ==
    (Finished("process_urls") /\ last.rerun) => articles = last.before

\* C2 amended: when every url of the CSV is in Articles after the first
\* call, the second call with the same CSV dispatches no scrape task and
\* leaves Articles as it was
C2_SecondRunOfStoredCsv ==
    (last.op = "process_urls" /\ last.rerun
        /\ Range(last.csv) \subseteq StoredUrls(last.before))
    => (articles = last.before /\ urls = <<>> /\ futures = <<>>)

C2_Witness ==
    /\ Finished("process_urls")
    /\ last.rerun
    /\ Range(last.csv) = URLS
    /\ Range(last.csv) \subseteq StoredUrls(last.before)
    /\ articles = last.before

\* C3: no scrape task of a ProcessURLs call is for a url that was in
\* Articles when the call was made
C3_NoTaskForStoredUrl ==
    last.op = "process_urls" =>
        /\ \A i \in DOMAIN urls : urls[i] \notin StoredUrls(last.before)
        /\ \A i \in DOMAIN futures : futures[i].url \notin StoredUrls(last.before)

C3_Witness ==
    /\ Finished("process_urls")
    /\ \E i \in DOMAIN last.csv : last.csv[i] \in StoredUrls(last.before)
    /\ futures # <<>>
    /\ \A i \in DOMAIN futures : futures[i].state = "drained"

\* C4: every row ProcessLabeledData adds to Labels is a (url, category) pair
\* of one row of the CSV
C4_LabelPairing ==
    last.op = "process_labeled_data" =>
        \A i \in (Len(last.before) + 1)..Len(labels) :
            \E j \in DOMAIN last.csv :
                /\ last.csv[j].URL = labels[i].url
                /\ last.csv[j].Tag = labels[i].category

\* C5: GetTrainingData returns a content sequence and a label sequence with
\* one element per row of the inner join, content i and label i coming from
\* the same joined row
C5_JoinAlignment ==
    last.op = "get_training_data" =>
        LET joined == InnerJoin(articles, labels)
        IN  /\ Len(last.features) = Len(joined)
            /\ Len(last.labels) = Len(joined)
            /\ \A i \in 1..Len(joined) :
                  \E j \in DOMAIN joined :
                      /\ last.features[i] = joined[j].content
                      /\ last.labels[i] = joined[j].category

\* the counts of one ProcessURLs call: tasks dispatched, scrapes that raised,
\* scrapes that returned no article, articles handed to insert_article (each
\* is announced by printing its title)
Dispatched == Len(futures)

ScrapesFailed == Cardinality({i \in DOMAIN futures : futures[i].result = "error"})

ScrapesEmpty == Cardinality({i \in DOMAIN futures : futures[i].result = "none"})

InsertAttempts == Cardinality({i \in DOMAIN log : log[i] # "Exception"})

AllDrained ==
    /\ Len(futures) = Len(urls)
    /\ \A i \in DOMAIN futures : futures[i].state = "drained"

\* C6 as stated: of N dispatched urls with M failing scrapes, exactly N-M
\* articles are attempted for insertion, every task is drained and
\* ProcessURLs does not raise
C6_AttemptsAreNMinusM ==
    Finished("process_urls") =>
        /\ InsertAttempts = Dispatched - ScrapesFailed
        /\ AllDrained
        /\ ~raised

\* C6 amended: of N dispatched urls with M failing scrapes and K scrapes that
\* yield no article, exactly N-M-K articles are attempted for insertion,
\* every task is drained and ProcessURLs does not raise
C6_AttemptsAreNMinusMMinusK ==
    Finished("process_urls") =>
        /\ InsertAttempts = Dispatched - ScrapesFailed - ScrapesEmpty
        /\ AllDrained
        /\ ~raised

C6_Witness ==
    /\ Finished("process_urls")
    /\ Dispatched = 2
    /\ ScrapesFailed = 1
    /\ InsertAttempts = 1
    /\ Cardinality({i \in DOMAIN log : log[i] = "Exception"}) = 2
    /\ articles = last.before

\* C7: InsertArticle with a url already in Articles leaves Articles
\* unchanged, prints a diagnostic and returns without raising
C7_DuplicateInsertIsNoOp ==
    (last.op = "insert_article" /\ last.url \in StoredUrls(last.before))
    => (articles = last.before /\ log # <<>> /\ ~raised)

\* C8: after any sequence of ProcessLabeledData calls, Labels holds at most
\* one row for every url
C8_LabelUrlUnique ==
    last.op = "process_labeled_data" =>
        \A u \in URLS : Cardinality(RowsWithUrl(labels, u)) <= 1

\* C9: at most 10 scrape tasks run at the same time
C9_AtMostTenRunning == Cardinality(Running) <= 10

C9_Witness ==
    /\ Cardinality(Running) = 10
    /\ Queued # {}
    /\ Len(futures) > 10

\* C10: after a ProcessLabeledData call, failed or not, Labels holds all the
\* rows of the batch or none of them
C10_AtomicBatch ==
    last.op = "process_labeled_data" =>
        LET values == LabelValues(last.csv, last.before)
        IN  \/ labels = last.before
            \/ labels = last.before \o [i \in DOMAIN values |-> LabelRow(values[i])]

\* C11: within one ProcessURLs call at most one scrape task is dispatched for
\* a url, also when the CSV lists the url more than once
C11_OneTaskPerUrl ==
    last.op = "process_urls" =>
        \A i, j \in DOMAIN futures :
            futures[i].url = futures[j].url => i = j

\* C12: GetTrainingData returns exactly one content/label pair for each url
\* that has both an Article and a Label (that article's content with that
\* url's category), and no pair for any other url
C12_OnePairPerLabelledArticle ==
    last.op = "get_training_data" =>
        LET both == StoredUrls(articles) \cap StoredUrls(labels)
        IN  /\ Len(last.features) = Cardinality(both)
            /\ Len(last.labels) = Cardinality(both)
            /\ \A u \in both :
                  \E i \in DOMAIN last.features :
                      /\ i \in DOMAIN last.labels
                      /\ \E a \in RowsWithUrl(articles, u) :
                            last.features[i] = articles[a].content
                      /\ \E l \in RowsWithUrl(labels, u) :
                            last.labels[i] = labels[l].category

\* the rows of the articles the scrapes of the call returned, and the number
\* of insertions the store refused
ScrapedRows ==
    {ArticleRow(ScrapedArticle(futures[i].url)) :
        i \in {j \in DOMAIN futures : futures[j].result = "article"}}

FailedInserts ==
    Cardinality({i \in DOMAIN log : log[i] = "Exception"}) - ScrapesFailed

\* C13: the set of rows in Articles after ProcessURLs is fixed by the store at
\* call time and the outcomes of the scrapes, whatever the order in which
\* the tasks complete and are drained: it is the rows stored before plus the
\* rows of the scraped articles (those the store did not refuse)
C13_FinalRowsIndependentOfOrder ==
    Finished("process_urls") =>
        /\ Range(last.before) \subseteq Range(articles)
        /\ Range(articles) \subseteq Range(last.before) \cup ScrapedRows
        /\ FailedInserts = 0 => Range(articles) = Range(last.before) \cup ScrapedRows

C13_Witness ==
    /\ Finished("process_urls")
    /\ Dispatched = 2
    /\ futures[1].url # futures[2].url
    /\ futures[1].result = "article"
    /\ futures[2].result = "article"
    /\ FailedInserts = 0
    /\ Len(articles) = 2
    /\ articles[1].url = futures[2].url

AllScrapesSucceeded ==
    \A i \in DOMAIN futures : futures[i].result = "article"

\* what C14 says of the interruption and of the tasks of the following run
InterruptionKeepsRows ==
    (last.op = "construct" /\ last.interrupted) => articles = last.before

RetryDispatchesUnstored ==
    (last.op = "process_urls" /\ last.retry) =>
        /\ Range(urls) = Range(last.csv) \ StoredUrls(last.before)
        /\ \A i \in DOMAIN futures : futures[i].url = urls[i]
        /\ Range(last.before) \subseteq Range(articles)
        /\ Finished("process_urls") => Len(futures) = Len(urls)

WorkerStep ==
    \E i \in DOMAIN futures :
        /\ i \in DOMAIN futures'
        /\ futures[i].state \in {"queued", "running"}
        /\ futures'[i].state \in {"running", "finished"}
        /\ futures'[i].state # futures[i].state

\* a step of the as_completed loop of the control thread: one completed
\* future is taken, no task changes otherwise
ControlDrainStep ==
    /\ pc = "drain"
    /\ \E i \in DOMAIN futures :
          /\ futures[i].state = "finished"
          /\ futures' = [futures EXCEPT ![i].state = "drained"]

\* C15: during ProcessURLs no worker step changes the store; every change of
\* the store is made by the control thread, one INSERT at a time
C15_StoreOnlyFromControlThread ==
    [][/\ WorkerStep => (articles' = articles /\ labels' = labels)
       /\ (pc # "idle" /\ (articles' # articles \/ labels' # labels))
          => /\ ControlDrainStep
             /\ labels' = labels
             /\ Len(articles') = Len(articles) + 1
             /\ SubSeq(articles', 1, Len(articles)) = articles]_vars

C15_Witness ==
    /\ pc = "drain"
    /\ Running # {}
    /\ \E i \in DOMAIN futures : futures[i].state = "drained"
    /\ Len(articles) = Len(last.before) + 1

\* C16: a ProcessURLs call whose scrapes all return or fail finishes, and by
\* then every dispatched task has completed and has been drained once (one
\* insertion attempt per scraped article), whatever failed
C16_TerminatesWithAllDrained ==
    (pc # "idle") ~>
        (/\ pc = "idle"
         /\ AllDrained
         /\ \A i \in DOMAIN futures : futures[i].result # "pending"
         /\ InsertAttempts = Cardinality({i \in DOMAIN futures : futures[i].result = "article"})
         /\ ~raised)

C16_Witness ==
    /\ Finished("process_urls")
    /\ Dispatched = 2
    /\ ScrapesFailed = 1
    /\ \E i \in DOMAIN futures : futures[i].result = "article"
    /\ AllDrained
    /\ Len(articles) = Len(last.before) + 1

IsPrefix(s, t) == Len(s) <= Len(t) /\ SubSeq(t, 1, Len(s)) = s

\* C17: no step of any operation, construction on the existing store
\* included, removes or changes a row of Articles or Labels: each table only
\* grows at its end
C17_AppendOnly ==
    [][IsPrefix(articles, articles') /\ IsPrefix(labels, labels')]_vars

C17_Witness ==
    /\ last.op = "construct"
    /\ last.before # <<>>
    /\ last.before_labels # <<>>
    /\ articles = last.before
    /\ labels = last.before_labels

\* C18: a scrape that yields no article leads to no insertion attempt and no
\* row for its url, and the other tasks are still processed
C18_EmptyScrapeDiscarded ==
    Finished("process_urls") =>
        /\ AllDrained
        /\ InsertAttempts = Cardinality({i \in DOMAIN futures : futures[i].result = "article"})
        /\ \A i \in DOMAIN futures :
              (\A j \in DOMAIN futures :
                  futures[j].url = futures[i].url => futures[j].result # "article")
              => futures[i].url \notin StoredUrls(articles)

C18_Witness ==
    /\ Finished("process_urls")
    /\ Dispatched = 2
    /\ ScrapesEmpty = 1
    /\ \E i \in DOMAIN futures :
          /\ futures[i].result = "none"
          /\ futures[i].url \notin StoredUrls(articles)
    /\ \E i \in DOMAIN futures :
          /\ futures[i].result = "article"
          /\ futures[i].url \in StoredUrls(articles)

\* C19: ProcessURLs and InsertArticle leave Labels unchanged,
\* ProcessLabeledData leaves Articles unchanged, GetTrainingData leaves both
\* unchanged
C19_Frames ==
    [][/\ (pc # "idle" \/ pc' # "idle") => labels' = labels
       /\ last'.op = "insert_article" => labels' = labels
       /\ last'.op = "process_labeled_data" => articles' = articles
       /\ last'.op = "get_training_data"
          => (articles' = articles /\ labels' = labels)]_vars

C19_Witness ==
    /\ last.op = "get_training_data"
    /\ articles # <<>>
    /\ labels # <<>>
    /\ last.labels # <<>>
====
